---- MODULE Spec2Model ----
(***************************************************************************)
(* Meeting summarizer: the record store (Meeting, Transcript, Summary,     *)
(* ActionItem), the processing pipeline (ProcessingService), the           *)
(* summarization adapter's retry loop, and the views that write a Meeting  *)
(* row (upload, toggle_star, delete_meeting).                              *)
(***************************************************************************)
EXTENDS Integers, Sequences, FiniteSets, TLC

(***************************************************************************)
(* Bounds of the model.                                                    *)
(***************************************************************************)
\* recordings uploaded in one behaviour
MaxMeetings == 1
\* characters of a transcription result
MaxTextLen == 3
\* action items of one summarization result
MaxItems == 3
\* how many times the pipeline is run on one recording
MaxRuns == 2
\* how many Transcripts are saved directly, outside the pipeline
MaxTranscripts == 2

(***************************************************************************)
(* Values.                                                                 *)
(***************************************************************************)
\* An optional value (Python None, SQL NULL): the empty sequence, or <<x>>
None == <<>>

Some(x) == <<x>>

Min(a, b) == IF a <= b THEN a ELSE b

\* A Python str whose content does not matter beyond its identity and its
\* length: [id, len].  s[:n] keeps the identity and cuts the length.
Str(id, n) == [id |-> id, len |-> n]

\* a faulty variant of the slice s[:n]: keeps the whole string
NoSlice(s, n) == s

Slice(s, n) == [id |-> s.id, len |-> Min(s.len, n)]

(***************************************************************************)
(* Transcript text: a sequence of characters, "a" a word character and     *)
(* " " whitespace.                                                         *)
(***************************************************************************)
TextChars == {"a", " "}

IsSpace(c) == c = " "

RECURSIVE SeqsUpTo(_, _)
SeqsUpTo(S, n) ==
    IF n = 0 THEN {<<>>}
    ELSE LET shorter == SeqsUpTo(S, n - 1)
         IN  shorter \cup {Append(s, x) : s \in {t \in shorter : Len(t) = n - 1}, x \in S}

Texts == SeqsUpTo(TextChars, MaxTextLen)

\* len(text.split()): the number of maximal runs of non-whitespace
RECURSIVE SplitCountFrom(_, _, _)
SplitCountFrom(text, i, inWord) ==
    IF i > Len(text) THEN 0
    ELSE IF IsSpace(text[i]) THEN SplitCountFrom(text, i + 1, FALSE)
    ELSE (IF inWord THEN 0 ELSE 1) + SplitCountFrom(text, i + 1, TRUE)

SplitCount(text) == SplitCountFrom(text, 1, FALSE)

\* a faulty variant of the blank test: "not text", without the strip
IsEmptyOnly(text) == text = <<>>

\* not text.strip()
StripIsEmpty(text) == \A i \in 1..Len(text) : IsSpace(text[i])

\* a faulty variant of Transcript.save: keeps the count the caller passed
WordCountPassed(text, passed) == passed

\* a faulty variant of Transcript.save: counts characters, not tokens
WordCountOfChars(text, passed) == Len(text)

\* Transcript.save: word_count is recomputed from the text, whatever was passed
TranscriptSaveWordCount(text, passed) ==
    IF text # <<>> THEN SplitCount(text) ELSE 0

(***************************************************************************)
(* JSON values of a chat-completion response: [k, v] with k the kind and v *)
(* a sequence holding the payload.  "missing" stands for a key the object  *)
(* does not have (dict.get then yields its default).                       *)
(***************************************************************************)
JMissing == [k |-> "missing", v |-> <<>>]

JNull == [k |-> "null", v |-> <<>>]

JNum == [k |-> "number", v |-> <<>>]

JStr(s) == [k |-> "str", v |-> <<s>>]

JList(xs) == [k |-> "list", v |-> xs]

JDict(d) == [k |-> "dict", v |-> <<d>>]

\* dict.get(key, default) on a field of a parsed object
Get(field, default) == IF field.k = "missing" THEN default ELSE field

(***************************************************************************)
(* Priority strings.  Codes gives the characters of each (ASCII), so that  *)
(* str.lower() and the store's string comparison are computed.             *)
(***************************************************************************)
PriorityStrings == {"high", "medium", "low", "URGENT", "urgent", "High"}

Codes(s) ==
    CASE s = "high"   -> <<104, 105, 103, 104>>
      [] s = "medium" -> <<109, 101, 100, 105, 117, 109>>
      [] s = "low"    -> <<108, 111, 119>>
      [] s = "URGENT" -> <<85, 82, 71, 69, 78, 84>>
      [] s = "urgent" -> <<117, 114, 103, 101, 110, 116>>
      [] s = "High"   -> <<72, 105, 103, 104>>

LowerCode(c) == IF c >= 65 /\ c <= 90 THEN c + 32 ELSE c

\* str.lower()
Lower(s) ==
    CHOOSE t \in PriorityStrings :
        Codes(t) = [i \in 1..Len(Codes(s)) |-> LowerCode(Codes(s)[i])]

\* a < b for two strings compared character by character (binary collation)
RECURSIVE SeqLess(_, _, _)
SeqLess(a, b, i) ==
    IF i > Len(a) THEN i <= Len(b)
    ELSE IF i > Len(b) THEN FALSE
    ELSE IF a[i] # b[i] THEN a[i] < b[i]
    ELSE SeqLess(a, b, i + 1)

StrLess(a, b) == SeqLess(Codes(a), Codes(b), 1)

\* ActionItem.PRIORITY_CHOICES
PRIORITY_CHOICES == {"high", "medium", "low"}

(***************************************************************************)
(* Dates: 'YYYY-MM-DD' strings the DateField parses, with their order.     *)
(***************************************************************************)
DateOrd(d) ==
    CASE d = "2025-01-01" -> 1
      [] d = "2025-02-01" -> 2
      [] d = "2025-03-01" -> 3

ValidDates == {"2025-01-01", "2025-02-01", "2025-03-01"}

(***************************************************************************)
(* Action items of a summarization result.                                 *)
(***************************************************************************)
RawItem(task, assignee, priority, deadline) ==
    JDict([task |-> task, assignee |-> assignee, priority |-> priority,
           deadline |-> deadline])

ItemHigh ==
    RawItem(JStr(Str("t1", 20)), JStr("alice"), JStr("high"), JStr("2025-03-01"))

ItemLow ==
    RawItem(JStr(Str("t2", 20)), JStr("bob"), JStr("low"), JStr("2025-01-01"))

ItemUrgent ==
    RawItem(JStr(Str("t3", 20)), JStr("bob"), JStr("URGENT"), JNull)

ItemNoAssignee ==
    RawItem(JStr(Str("t4", 20)), JMissing, JStr("medium"), JStr("2025-02-01"))

\* "priority": null, which the NOT NULL column refuses
ItemNullPriority ==
    RawItem(JStr(Str("t5", 20)), JStr("alice"), JNull, JNull)

RawItems == {ItemHigh, ItemLow, ItemUrgent, ItemNoAssignee, ItemNullPriority}

\* the action_items lists of the model: up to MaxItems distinct items
ItemLists ==
    {items \in SeqsUpTo(RawItems, MaxItems) :
        \A i, j \in 1..Len(items) : items[i] = items[j] => i = j}

(***************************************************************************)
(* Summarization results and chat-completion responses.                    *)
(***************************************************************************)
GoodDict(items) ==
    [executive_summary |-> JStr("overview"),
     key_decisions     |-> JList(<<"decision">>),
     action_items      |-> JList(items),
     discussion_topics |-> JList(<<"topic">>),
     participants      |-> JList(<<"alice">>),
     insights          |-> JMissing]

\* the last one holds an optional field that is no list
GoodDicts ==
    {GoodDict(items) : items \in ItemLists}
    \cup {[GoodDict(<<>>) EXCEPT !.participants = JStr("alice")]}

\* objects that lack a required key or hold a value of the wrong type
BadDicts ==
    LET d == GoodDict(<<>>)
    IN  {[d EXCEPT !.executive_summary = JMissing],
         [d EXCEPT !.key_decisions = JMissing],
         [d EXCEPT !.action_items = JMissing],
         [d EXCEPT !.discussion_topics = JMissing],
         [d EXCEPT !.executive_summary = JList(<<>>)],
         [d EXCEPT !.key_decisions = JStr("decision")],
         [d EXCEPT !.action_items = JNull],
         [d EXCEPT !.discussion_topics = JNum]}

Dicts == GoodDicts \cup BadDicts

\* What one chat-completion call yields: the call raises ("api_error"), or
\* returns a content that is empty, unparseable with no {...} span
\* ("garbage"), unparseable inside its {...} span ("wrapped_garbage"), JSON
\* that is no object ("not_object"), a JSON object ("json"), or a JSON
\* object inside other text ("wrapped").
Response(kind, body) == [kind |-> kind, body |-> body]

Responses ==
    {Response(kind, None) : kind \in
        {"api_error", "empty", "garbage", "wrapped_garbage", "not_object"}}
    \cup {Response("json", Some(d)) : d \in Dicts}
    \cup {Response("wrapped", Some(d)) : d \in {GoodDict(<<>>), GoodDict(<<ItemHigh>>)} \cup BadDicts}

\* the fixed result returned when every attempt failed
fallback_summary ==
    [executive_summary |-> JStr("Summary generation encountered errors."),
     key_decisions     |-> JList(<<>>),
     action_items      |-> JList(<<>>),
     discussion_topics |-> JList(<<>>),
     participants      |-> JList(<<>>),
     insights          |-> JList(<<>>)]

required_keys == {"executive_summary", "key_decisions", "action_items", "discussion_topics"}

Field(d, key) ==
    CASE key = "executive_summary" -> d.executive_summary
      [] key = "key_decisions"     -> d.key_decisions
      [] key = "action_items"      -> d.action_items
      [] key = "discussion_topics" -> d.discussion_topics
      [] key = "participants"      -> d.participants
      [] key = "insights"          -> d.insights

validate_summary_structure(d) ==
    LET missing_keys == {key \in required_keys : Field(d, key).k = "missing"}
    IN  /\ missing_keys = {}
        /\ d.executive_summary.k = "str"
        /\ d.key_decisions.k = "list"
        /\ d.action_items.k = "list"
        /\ d.discussion_topics.k = "list"

\* a faulty variant of the iteration: returns what parses, unvalidated
AttemptResultUnvalidated(resp) ==
    IF resp.kind \in {"json", "wrapped"} THEN resp.body ELSE None

\* The body of one iteration of generate_summary's loop, after the call:
\* the parsed and validated object, or None when the iteration raises.
AttemptResult(resp) ==
    IF resp.kind \in {"json", "wrapped"} /\ validate_summary_structure(resp.body[1])
    THEN resp.body
    ELSE None

max_retries == 3

(***************************************************************************)
(* Files and uploads.                                                      *)
(***************************************************************************)
MB == 1024 * 1024

\* TranscriptionService.MAX_FILE_SIZE
MAX_FILE_SIZE == 25 * MB

\* TranscriptionService.SUPPORTED_FORMATS
SUPPORTED_FORMATS == {".mp3", ".mp4", ".mpeg", ".mpga", ".m4a", ".wav", ".webm"}

\* MeetingUploadForm.clean_audio_file
allowed_extensions == {".mp3", ".wav", ".m4a"}

max_size == 100 * MB

\* str.lower() on the extensions of the model
lower(ext) ==
    CASE ext = ".MP3" -> ".mp3"
      [] ext = ".WAV" -> ".wav"
      [] OTHER -> ext

clean_audio_file(f) == lower(f.ext) \in allowed_extensions /\ f.size <= max_size

\* the files offered to the upload form
UploadFiles ==
    {[ext |-> ".mp3", size |-> 10 * MB],
     [ext |-> ".wav", size |-> 26 * MB],
     [ext |-> ".ogg", size |-> 1 * MB]}

(***************************************************************************)
(* Exception messages.                                                     *)
(***************************************************************************)
\* the length error_message is cut to
ErrMax == 500

MsgDbLocked == Str("database is locked", 18)

MsgForeignKey == Str("FOREIGN KEY constraint failed", 29)

MsgUnique == Str("UNIQUE constraint failed: meetings_summary.meeting_id", 53)

MsgNotFound == Str("Audio file validation failed: Audio file not found", 90)

MsgNotAFile == Str("Audio file validation failed: Path is not a file", 85)

MsgTooLarge == Str("Audio file validation failed: File size exceeds Whisper API limit", 110)

MsgBadFormat == Str("Audio file validation failed: Unsupported file format", 140)

MsgEmptyTranscription == Str("Transcription returned empty text", 33)

MsgEmptyTranscript == Str("Transcript text cannot be empty", 31)

MsgEmptySummary == Str("Summarization returned empty data", 33)

\* "Transcription failed for <path>: <the API's error>", of any length
ApiErrors == {Str("Transcription failed", 120), Str("Transcription failed", ErrMax + 1)}

(***************************************************************************)
(* State.                                                                  *)
(***************************************************************************)
VARIABLES
    \* Meeting rows by id: [status, duration, error_message, is_starred, file_size]
    meetings,
    \* the audio files in storage, by the id of the Meeting they belong to
    files,
    \* Transcript rows, oldest first: [meeting, text, word_count]
    transcripts,
    \* Summary rows, oldest first
    summaries,
    \* ActionItem rows, oldest first
    action_items,
    \* the ProcessingService of each recording and where its thread is
    svc,
    \* toggle_star requests that have loaded their Meeting and not yet saved it
    req,
    \* what the latest delete request, or the latest direct call of
    \* transcribe_audio, answered: None, or [id, outcome]
    reply,
    \* the paths (by the id of their Meeting) whose file was sent to the
    \* transcription API; no action reads it
    transcription_calls,
    \* the next id the store gives a Meeting
    nextId

vars ==
    <<meetings, files, transcripts, summaries, action_items, svc, req, reply,
      transcription_calls, nextId>>

\* rows of a table that belong to recording m
RowsOf(table, m) == SelectSeq(table, LAMBDA r : r.meeting = m)

\* a function without the key m
Without(f, m) == [x \in DOMAIN f \ {m} |-> f[x]]

\* a function with key m set to v
With(f, m, v) == [x \in DOMAIN f \cup {m} |-> IF x = m THEN v ELSE f[x]]

\* Model.save() of an instance loaded from the store: every column is written
\* from the instance; a row that is gone is inserted again
Save(m, instance) == With(meetings, m, instance)

Init ==
    /\ meetings = <<>>
    /\ files = <<>>
    /\ transcripts = <<>>
    /\ summaries = <<>>
    /\ action_items = <<>>
    /\ svc = <<>>
    /\ req = <<>>
    /\ reply = None
    /\ transcription_calls = {}
    /\ nextId = 1

(***************************************************************************)
(* Upload: views.index / views.upload_meeting.  A valid form saves the     *)
(* Meeting as pending, builds its ProcessingService (which loads the row)  *)
(* and starts the pipeline thread.  limit bounds the recordings uploaded.  *)
(***************************************************************************)
NewMeeting(f) ==
    [status |-> "pending", duration |-> None, error_message |-> None,
     is_starred |-> FALSE, file_size |-> f.size]

\* ProcessingService.__init__ and run_in_background: the instance holds its
\* own copy of the Meeting.  attempt is generate_summary's loop variable;
\* calls, sleeps and last (the response of its latest call) record what that
\* call of generate_summary did, store_raised the steps of the run whose
\* statement on the store raised; no action reads them.  run numbers the
\* runs of the pipeline on the recording, loaded is the status the row had
\* when __init__ loaded it, transcript_text is what transcribe_audio
\* returned to the run, empty or not, and probed is what get_audio_duration
\* returned to it (Some(None) when it returned None).
NewService(instance) ==
    [pc |-> "start", meeting |-> instance, text |-> None, summary |-> None,
     attempt |-> 0, idx |-> 0, error |-> None, returned |-> None,
     calls |-> 0, sleeps |-> 0, last |-> None, store_raised |-> {}, run |-> 1,
     loaded |-> instance.status, transcript_text |-> None, probed |-> None]

Upload(f, limit) ==
    /\ nextId <= limit
    /\ clean_audio_file(f)
    /\ meetings' = Save(nextId, NewMeeting(f))
    /\ files' = With(files, nextId, [ext |-> f.ext, size |-> f.size, is_file |-> TRUE])
    /\ svc' = With(svc, nextId, NewService(NewMeeting(f)))
    /\ nextId' = nextId + 1
    /\ UNCHANGED <<transcripts, summaries, action_items, req, reply, transcription_calls>>

(***************************************************************************)
(* The pipeline: ProcessingService.process_meeting, one action per access  *)
(* to the store or to an external service.  A store write may raise        *)
(* (ok = FALSE).                                                           *)
(***************************************************************************)
\* an exception reaches process_meeting's "except Exception"
Raise(p, msg) == [p EXCEPT !.pc = "handler", !.error = Some(msg)]

\* a statement on the store raises (the database is locked, is gone)
StoreRaise(p, step) ==
    [Raise(p, MsgDbLocked) EXCEPT !.store_raised = @ \cup {step}]

\* STEP 1: status = 'processing', save
SetProcessing(m, ok) ==
    /\ m \in DOMAIN svc
    /\ svc[m].pc = "start"
    /\ LET p == [svc[m] EXCEPT !.meeting.status = "processing"]
       IN  IF ok
           THEN /\ meetings' = Save(m, p.meeting)
                /\ svc' = [svc EXCEPT ![m] = [p EXCEPT !.pc = "probe"]]
           ELSE /\ svc' = [svc EXCEPT ![m] = StoreRaise(p, "status")]
                /\ UNCHANGED meetings
    /\ UNCHANGED <<files, transcripts, summaries, action_items, req, reply, nextId, transcription_calls>>

\* what get_audio_duration can return: None when the file cannot be read
Durations == {None, Some(0), Some(330)}

\* STEP 2, first half: the duration probe; its save is inside the inner try
ProbeDuration(m, duration, ok) ==
    /\ m \in DOMAIN svc
    /\ svc[m].pc = "probe"
    /\ m \notin DOMAIN files => duration = None
    /\ IF duration # None /\ duration[1] # 0
       THEN LET p == [svc[m] EXCEPT !.meeting.duration = duration,
                                    !.probed = Some(duration)]
            IN  IF ok
                THEN /\ meetings' = Save(m, p.meeting)
                     /\ svc' = [svc EXCEPT ![m] = [p EXCEPT !.pc = "transcribe"]]
                ELSE /\ svc' = [svc EXCEPT ![m] =
                            [p EXCEPT !.pc = "transcribe",
                                      !.store_raised = @ \cup {"duration"}]]
                     /\ UNCHANGED meetings
       ELSE /\ ok
            /\ svc' = [svc EXCEPT ![m].pc = "transcribe", ![m].probed = Some(duration)]
            /\ UNCHANGED meetings
    /\ UNCHANGED <<files, transcripts, summaries, action_items, req, reply, nextId, transcription_calls>>

\* a faulty variant of the size test: a file of exactly 25 MB refused
validate_audio_file_at_limit(m) ==
    IF m \notin DOMAIN files THEN Some(MsgNotFound)
    ELSE IF ~files[m].is_file THEN Some(MsgNotAFile)
    ELSE IF files[m].size >= MAX_FILE_SIZE THEN Some(MsgTooLarge)
    ELSE IF lower(files[m].ext) \notin SUPPORTED_FORMATS THEN Some(MsgBadFormat)
    ELSE None

\* TranscriptionService.validate_audio_file on the path of recording m's
\* file: None when valid (True, None), else the error (False, error)
validate_audio_file(m) ==
    IF m \notin DOMAIN files THEN Some(MsgNotFound)
    ELSE IF ~files[m].is_file THEN Some(MsgNotAFile)
    ELSE IF files[m].size > MAX_FILE_SIZE THEN Some(MsgTooLarge)
    ELSE IF lower(files[m].ext) \notin SUPPORTED_FORMATS THEN Some(MsgBadFormat)
    ELSE None

\* what the transcription API can do: raise, or return a text
TranscriptionOutcomes ==
    {[raises |-> TRUE, error |-> e, text |-> <<>>] : e \in ApiErrors}
    \cup {[raises |-> FALSE, error |-> MsgDbLocked, text |-> t] : t \in Texts}

\* a faulty variant of STEP 2: an empty text is passed on
TranscribeUnchecked(m, outcome) ==
    /\ m \in DOMAIN svc
    /\ svc[m].pc = "transcribe"
    /\ LET p == svc[m]
           got == [p EXCEPT !.transcript_text = Some(outcome.text)]
           invalid == validate_audio_file(m)
       IN  /\ svc' = [svc EXCEPT ![m] =
                  IF invalid # None THEN Raise(p, invalid[1])
                  ELSE IF outcome.raises THEN Raise(p, outcome.error)
                  ELSE [got EXCEPT !.pc = "save_transcript", !.text = Some(outcome.text)]]
           /\ transcription_calls' =
                  IF invalid # None THEN transcription_calls
                  ELSE transcription_calls \cup {m}
    /\ UNCHANGED <<meetings, files, transcripts, summaries, action_items, req, reply, nextId>>

\* STEP 2: transcribe_audio, then the empty-text check
Transcribe(m, outcome) ==
    /\ m \in DOMAIN svc
    /\ svc[m].pc = "transcribe"
    /\ LET p == svc[m]
           got == [p EXCEPT !.transcript_text = Some(outcome.text)]
           invalid == validate_audio_file(m)
       IN  /\ svc' = [svc EXCEPT ![m] =
                  IF invalid # None THEN Raise(p, invalid[1])
                  ELSE IF outcome.raises THEN Raise(p, outcome.error)
                  ELSE IF outcome.text = <<>> THEN Raise(got, MsgEmptyTranscription)
                  ELSE [got EXCEPT !.pc = "save_transcript", !.text = Some(outcome.text)]]
           /\ transcription_calls' =
                  IF invalid # None THEN transcription_calls
                  ELSE transcription_calls \cup {m}
    /\ UNCHANGED <<meetings, files, transcripts, summaries, action_items, req, reply, nextId>>

\* a faulty variant: the file is sent to the API before it is validated
transcribe_audio_unvalidated(path, outcome) ==
    /\ transcription_calls' = transcription_calls \cup {path}
    /\ reply' = Some([id |-> path,
                      outcome |-> IF validate_audio_file(path) # None THEN "ValueError"
                                  ELSE IF outcome.raises THEN "Exception"
                                  ELSE "text"])
    /\ UNCHANGED <<meetings, files, transcripts, summaries, action_items, svc, req, nextId>>

\* TranscriptionService.transcribe_audio called on a path: ValueError when
\* the validation fails, else the API is called and its text returned or its
\* exception wrapped in an Exception
transcribe_audio(path, outcome) ==
    /\ LET invalid == validate_audio_file(path)
       IN  IF invalid # None
           THEN /\ reply' = Some([id |-> path, outcome |-> "ValueError"])
                /\ UNCHANGED transcription_calls
           ELSE /\ transcription_calls' = transcription_calls \cup {path}
                /\ reply' = Some([id |-> path,
                                  outcome |-> IF outcome.raises THEN "Exception" ELSE "text"])
    /\ UNCHANGED <<meetings, files, transcripts, summaries, action_items, svc, req, nextId>>

\* a faulty variant of STEP 3: the Transcript goes to the first recording
SaveTranscriptToFirst(m, ok) ==
    /\ m \in DOMAIN svc
    /\ svc[m].pc = "save_transcript"
    /\ LET p == svc[m]
           text == p.text[1]
           word_count == SplitCount(text)
       IN  IF ~ok
           THEN /\ svc' = [svc EXCEPT ![m] = StoreRaise(p, "transcript")]
                /\ UNCHANGED transcripts
           ELSE IF m \notin DOMAIN meetings
           THEN /\ svc' = [svc EXCEPT ![m] = Raise(p, MsgForeignKey)]
                /\ UNCHANGED transcripts
           ELSE /\ transcripts' = Append(transcripts,
                       [meeting |-> 1, text |-> text,
                        word_count |-> TranscriptSaveWordCount(text, word_count)])
                /\ svc' = [svc EXCEPT ![m].pc = "summarize"]
    /\ UNCHANGED <<meetings, files, summaries, action_items, req, reply, nextId, transcription_calls>>

\* STEP 3: Transcript.objects.create
SaveTranscript(m, ok) ==
    /\ m \in DOMAIN svc
    /\ svc[m].pc = "save_transcript"
    /\ LET p == svc[m]
           text == p.text[1]
           word_count == SplitCount(text)
       IN  IF ~ok
           THEN /\ svc' = [svc EXCEPT ![m] = StoreRaise(p, "transcript")]
                /\ UNCHANGED transcripts
           ELSE IF m \notin DOMAIN meetings
           THEN /\ svc' = [svc EXCEPT ![m] = Raise(p, MsgForeignKey)]
                /\ UNCHANGED transcripts
           ELSE /\ transcripts' = Append(transcripts,
                       [meeting |-> m, text |-> text,
                        word_count |-> TranscriptSaveWordCount(text, word_count)])
                /\ svc' = [svc EXCEPT ![m].pc = "summarize"]
    /\ UNCHANGED <<meetings, files, summaries, action_items, req, reply, nextId, transcription_calls>>

\* generate_summary called on a text by a caller of its own, outside a run
CallGenerateSummary(m, transcript_text) ==
    /\ m \notin DOMAIN svc
    /\ svc' = With(svc, m, [NewService(NewMeeting([size |-> 0])) EXCEPT
                               !.pc = "summarize", !.text = Some(transcript_text)])
    /\ UNCHANGED <<meetings, files, transcripts, summaries, action_items, req, reply, nextId, transcription_calls>>

\* a faulty variant of STEP 4: a whitespace-only text goes to the loop
SummarizeUnstripped(m) ==
    /\ m \in DOMAIN svc
    /\ svc[m].pc = "summarize"
    /\ LET p == svc[m]
       IN  svc' = [svc EXCEPT ![m] =
               IF p.text[1] = <<>>
               THEN Raise(p, MsgEmptyTranscript)
               ELSE [p EXCEPT !.pc = "attempt", !.attempt = 0]]
    /\ UNCHANGED <<meetings, files, transcripts, summaries, action_items, req, reply, nextId, transcription_calls>>

\* STEP 4: generate_summary, its input validation
Summarize(m) ==
    /\ m \in DOMAIN svc
    /\ svc[m].pc = "summarize"
    /\ LET p == svc[m]
       IN  svc' = [svc EXCEPT ![m] =
               IF p.text[1] = <<>> \/ StripIsEmpty(p.text[1])
               THEN Raise(p, MsgEmptyTranscript)
               ELSE [p EXCEPT !.pc = "attempt", !.attempt = 0]]
    /\ UNCHANGED <<meetings, files, transcripts, summaries, action_items, req, reply, nextId, transcription_calls>>

\* a faulty variant of the loop: raises when the last attempt failed
AttemptRaisesWhenExhausted(m, resp) ==
    /\ m \in DOMAIN svc
    /\ svc[m].pc = "attempt"
    /\ LET p == [svc[m] EXCEPT !.calls = @ + 1, !.last = Some(resp)]
           result == AttemptResult(resp)
       IN  svc' = [svc EXCEPT ![m] =
               IF result # None
               THEN [p EXCEPT !.pc = "check_summary", !.summary = result]
               ELSE IF p.attempt < max_retries - 1
               THEN [p EXCEPT !.attempt = @ + 1, !.sleeps = @ + 1]
               ELSE Raise(p, MsgEmptySummary)]
    /\ UNCHANGED <<meetings, files, transcripts, summaries, action_items, req, reply, nextId, transcription_calls>>

\* a faulty variant of the loop: it sleeps after the last failure too
AttemptSleepsAfterLast(m, resp) ==
    /\ m \in DOMAIN svc
    /\ svc[m].pc = "attempt"
    /\ LET p == [svc[m] EXCEPT !.calls = @ + 1, !.last = Some(resp)]
           result == AttemptResult(resp)
       IN  svc' = [svc EXCEPT ![m] =
               IF result # None
               THEN [p EXCEPT !.pc = "check_summary", !.summary = result]
               ELSE IF p.attempt < max_retries - 1
               THEN [p EXCEPT !.attempt = @ + 1, !.sleeps = @ + 1]
               ELSE [p EXCEPT !.pc = "check_summary", !.sleeps = @ + 1,
                              !.summary = Some(fallback_summary)]]
    /\ UNCHANGED <<meetings, files, transcripts, summaries, action_items, req, reply, nextId, transcription_calls>>

\* generate_summary, one iteration of its loop: the call, the parse, the
\* validation; a failed iteration sleeps unless it was the last, and the last
\* failure returns the fallback
Attempt(m, resp) ==
    /\ m \in DOMAIN svc
    /\ svc[m].pc = "attempt"
    /\ LET p == [svc[m] EXCEPT !.calls = @ + 1, !.last = Some(resp)]
           result == AttemptResult(resp)
       IN  svc' = [svc EXCEPT ![m] =
               IF result # None
               THEN [p EXCEPT !.pc = "check_summary", !.summary = result]
               ELSE IF p.attempt < max_retries - 1
               THEN [p EXCEPT !.attempt = @ + 1, !.sleeps = @ + 1]
               ELSE [p EXCEPT !.pc = "check_summary", !.summary = Some(fallback_summary)]]
    /\ UNCHANGED <<meetings, files, transcripts, summaries, action_items, req, reply, nextId, transcription_calls>>

\* a faulty variant of the check: a result without content fails the run
CheckSummaryRejectsFallback(m) ==
    /\ m \in DOMAIN svc
    /\ svc[m].pc = "check_summary"
    /\ LET p == [svc[m] EXCEPT !.attempt = 0, !.calls = 0, !.sleeps = 0, !.last = None]
       IN  svc' = [svc EXCEPT ![m] =
               IF p.summary = None \/ p.summary = Some(fallback_summary)
               THEN Raise(p, MsgEmptySummary)
               ELSE [p EXCEPT !.pc = "save_summary"]]
    /\ UNCHANGED <<meetings, files, transcripts, summaries, action_items, req, reply, nextId, transcription_calls>>

\* STEP 4, after generate_summary returned: "if not summary_data: raise"; the
\* locals of generate_summary are gone
CheckSummary(m) ==
    /\ m \in DOMAIN svc
    /\ svc[m].pc = "check_summary"
    /\ LET p == [svc[m] EXCEPT !.attempt = 0, !.calls = 0, !.sleeps = 0, !.last = None]
       IN  svc' = [svc EXCEPT ![m] =
               IF p.summary = None
               THEN Raise(p, MsgEmptySummary)
               ELSE [p EXCEPT !.pc = "save_summary"]]
    /\ UNCHANGED <<meetings, files, transcripts, summaries, action_items, req, reply, nextId, transcription_calls>>

\* a faulty variant of STEP 5: an existing Summary is kept and the run goes on
SaveSummaryKeepsExisting(m, ok) ==
    /\ m \in DOMAIN svc
    /\ svc[m].pc = "save_summary"
    /\ LET p == svc[m]
           summary_data == p.summary[1]
           items == Get(summary_data.action_items, JList(<<>>)).v
           next == IF items = <<>> THEN [p EXCEPT !.pc = "complete"]
                   ELSE [p EXCEPT !.pc = "items", !.idx = 1]
       IN  IF ~ok
           THEN /\ svc' = [svc EXCEPT ![m] = StoreRaise(p, "summary")]
                /\ UNCHANGED summaries
           ELSE IF m \notin DOMAIN meetings
           THEN /\ svc' = [svc EXCEPT ![m] = Raise(p, MsgForeignKey)]
                /\ UNCHANGED summaries
           ELSE IF RowsOf(summaries, m) # <<>>
           THEN /\ svc' = [svc EXCEPT ![m] = next]
                /\ UNCHANGED summaries
           ELSE /\ summaries' = Append(summaries,
                       [meeting |-> m,
                        executive_summary |-> Get(summary_data.executive_summary, JStr("")),
                        key_decisions |-> Get(summary_data.key_decisions, JList(<<>>)),
                        discussion_topics |-> Get(summary_data.discussion_topics, JList(<<>>)),
                        participants |-> Get(summary_data.participants, JList(<<>>)),
                        insights |-> Get(summary_data.insights, JList(<<>>))])
                /\ svc' = [svc EXCEPT ![m] = next]
    /\ UNCHANGED <<meetings, files, transcripts, action_items, req, reply, nextId, transcription_calls>>

\* a faulty variant of STEP 5: no uniqueness on Summary.meeting
SaveSummaryNotUnique(m, ok) ==
    /\ m \in DOMAIN svc
    /\ svc[m].pc = "save_summary"
    /\ LET p == svc[m]
           summary_data == p.summary[1]
           items == Get(summary_data.action_items, JList(<<>>)).v
           next == IF items = <<>> THEN [p EXCEPT !.pc = "complete"]
                   ELSE [p EXCEPT !.pc = "items", !.idx = 1]
       IN  IF ~ok
           THEN /\ svc' = [svc EXCEPT ![m] = StoreRaise(p, "summary")]
                /\ UNCHANGED summaries
           ELSE IF m \notin DOMAIN meetings
           THEN /\ svc' = [svc EXCEPT ![m] = Raise(p, MsgForeignKey)]
                /\ UNCHANGED summaries
           ELSE /\ summaries' = Append(summaries,
                       [meeting |-> m,
                        executive_summary |-> Get(summary_data.executive_summary, JStr("")),
                        key_decisions |-> Get(summary_data.key_decisions, JList(<<>>)),
                        discussion_topics |-> Get(summary_data.discussion_topics, JList(<<>>)),
                        participants |-> Get(summary_data.participants, JList(<<>>)),
                        insights |-> Get(summary_data.insights, JList(<<>>))])
                /\ svc' = [svc EXCEPT ![m] = next]
    /\ UNCHANGED <<meetings, files, transcripts, action_items, req, reply, nextId, transcription_calls>>

\* STEP 5: Summary.objects.create; one Summary per Meeting (OneToOneField)
SaveSummary(m, ok) ==
    /\ m \in DOMAIN svc
    /\ svc[m].pc = "save_summary"
    /\ LET p == svc[m]
           summary_data == p.summary[1]
           items == Get(summary_data.action_items, JList(<<>>)).v
           next == IF items = <<>> THEN [p EXCEPT !.pc = "complete"]
                   ELSE [p EXCEPT !.pc = "items", !.idx = 1]
       IN  IF ~ok
           THEN /\ svc' = [svc EXCEPT ![m] = StoreRaise(p, "summary")]
                /\ UNCHANGED summaries
           ELSE IF m \notin DOMAIN meetings
           THEN /\ svc' = [svc EXCEPT ![m] = Raise(p, MsgForeignKey)]
                /\ UNCHANGED summaries
           ELSE IF RowsOf(summaries, m) # <<>>
           THEN /\ svc' = [svc EXCEPT ![m] = Raise(p, MsgUnique)]
                /\ UNCHANGED summaries
           ELSE /\ summaries' = Append(summaries,
                       [meeting |-> m,
                        executive_summary |-> Get(summary_data.executive_summary, JStr("")),
                        key_decisions |-> Get(summary_data.key_decisions, JList(<<>>)),
                        discussion_topics |-> Get(summary_data.discussion_topics, JList(<<>>)),
                        participants |-> Get(summary_data.participants, JList(<<>>)),
                        insights |-> Get(summary_data.insights, JList(<<>>))])
                /\ svc' = [svc EXCEPT ![m] = next]
    /\ UNCHANGED <<meetings, files, transcripts, action_items, req, reply, nextId, transcription_calls>>

\* the length ActionItem.title is cut to
TitleMax == 300

\* ActionItem.objects.create(...) for one item of the result: the row, or
\* None when the statement raises (the item is no object, task or priority
\* is null, the deadline is no date).  The fields of the model's items are
\* strings, null or absent.
NewActionItem(m, item_data) ==
    LET task == Get(item_data.v[1].task, JStr(Str("", 0)))
        assignee == Get(item_data.v[1].assignee, JStr("Unassigned"))
        priority == Get(item_data.v[1].priority, JStr("medium"))
        deadline == Get(item_data.v[1].deadline, JNull)
    IN  IF \/ item_data.k # "dict"
           \/ task.k # "str"
           \/ priority.k # "str"
           \/ assignee.k \notin {"str", "null"}
           \/ deadline.k \notin {"str", "null"}
           \/ (deadline.k = "str" /\ deadline.v[1] \notin ValidDates)
        THEN None
        ELSE Some([meeting |-> m,
                   title |-> IF task.v[1].len > 0 THEN Slice(task.v[1], TitleMax)
                             ELSE Str("Untitled Task", 13),
                   task |-> task.v[1],
                   assignee |-> assignee.v,
                   priority |-> priority.v[1],
                   deadline |-> deadline.v,
                   is_completed |-> FALSE,
                   completed_at |-> None])

\* a faulty variant of the loop: STEP 7 follows the first item
SaveActionItemThenComplete(m) ==
    /\ m \in DOMAIN svc
    /\ svc[m].pc = "items"
    /\ LET p == svc[m]
           items == p.summary[1].action_items.v
           row == NewActionItem(m, items[p.idx])
       IN  /\ svc' = [svc EXCEPT ![m] = [p EXCEPT !.pc = "complete"]]
           /\ IF row # None /\ m \in DOMAIN meetings
              THEN action_items' = Append(action_items, row[1])
              ELSE UNCHANGED action_items
    /\ UNCHANGED <<meetings, files, transcripts, summaries, req, reply, nextId, transcription_calls>>

\* a faulty variant of the loop: an item whose create raises ends the run
SaveActionItemAborts(m) ==
    /\ m \in DOMAIN svc
    /\ svc[m].pc = "items"
    /\ LET p == svc[m]
           items == p.summary[1].action_items.v
           row == NewActionItem(m, items[p.idx])
           next == IF p.idx = Len(items) THEN [p EXCEPT !.pc = "complete"]
                   ELSE [p EXCEPT !.idx = @ + 1]
       IN  IF row # None /\ m \in DOMAIN meetings
           THEN /\ svc' = [svc EXCEPT ![m] = next]
                /\ action_items' = Append(action_items, row[1])
           ELSE /\ svc' = [svc EXCEPT ![m] = Raise(p, MsgForeignKey)]
                /\ UNCHANGED action_items
    /\ UNCHANGED <<meetings, files, transcripts, summaries, req, reply, nextId, transcription_calls>>

\* STEP 6: one iteration of the action-item loop, with its own try/except:
\* an item whose create raises is skipped
SaveActionItem(m) ==
    /\ m \in DOMAIN svc
    /\ svc[m].pc = "items"
    /\ LET p == svc[m]
           items == p.summary[1].action_items.v
           row == NewActionItem(m, items[p.idx])
           next == IF p.idx = Len(items) THEN [p EXCEPT !.pc = "complete"]
                   ELSE [p EXCEPT !.idx = @ + 1]
       IN  /\ svc' = [svc EXCEPT ![m] = next]
           /\ IF row # None /\ m \in DOMAIN meetings
              THEN action_items' = Append(action_items, row[1])
              ELSE UNCHANGED action_items
    /\ UNCHANGED <<meetings, files, transcripts, summaries, req, reply, nextId, transcription_calls>>

\* a faulty variant of STEP 7: an exception of the save is swallowed
MarkCompletedUnsaved(m, ok) ==
    /\ m \in DOMAIN svc
    /\ svc[m].pc = "complete"
    /\ LET p == [svc[m] EXCEPT !.meeting.status = "completed",
                               !.pc = "done", !.returned = Some(TRUE)]
       IN  IF ok
           THEN /\ meetings' = Save(m, p.meeting)
                /\ svc' = [svc EXCEPT ![m] = p]
           ELSE /\ svc' = [svc EXCEPT ![m] = [p EXCEPT !.store_raised = @ \cup {"completed"}]]
                /\ UNCHANGED meetings
    /\ UNCHANGED <<files, transcripts, summaries, action_items, req, reply, nextId, transcription_calls>>

\* STEP 7: status = 'completed', save, return True
MarkCompleted(m, ok) ==
    /\ m \in DOMAIN svc
    /\ svc[m].pc = "complete"
    /\ LET p == [svc[m] EXCEPT !.meeting.status = "completed"]
       IN  IF ok
           THEN /\ meetings' = Save(m, p.meeting)
                /\ svc' = [svc EXCEPT ![m] = [p EXCEPT !.pc = "done", !.returned = Some(TRUE)]]
           ELSE /\ svc' = [svc EXCEPT ![m] = StoreRaise(p, "completed")]
                /\ UNCHANGED meetings
    /\ UNCHANGED <<files, transcripts, summaries, action_items, req, reply, nextId, transcription_calls>>

\* a faulty variant of the handler: records the message, leaves the status
HandleErrorKeepsStatus(m, ok) ==
    /\ m \in DOMAIN svc
    /\ svc[m].pc = "handler"
    /\ LET p == [svc[m] EXCEPT !.meeting.error_message = Some(Slice(svc[m].error[1], ErrMax)),
                               !.pc = "done",
                               !.returned = Some(FALSE)]
       IN  IF ok
           THEN /\ meetings' = Save(m, p.meeting)
                /\ svc' = [svc EXCEPT ![m] = p]
           ELSE /\ svc' = [svc EXCEPT ![m] = [p EXCEPT !.store_raised = @ \cup {"handler"}]]
                /\ UNCHANGED meetings
    /\ UNCHANGED <<files, transcripts, summaries, action_items, req, reply, nextId, transcription_calls>>

\* except Exception: status = 'failed', error_message = str(e)[:500], save
\* (an exception of this save is swallowed), return False
HandleError(m, ok) ==
    /\ m \in DOMAIN svc
    /\ svc[m].pc = "handler"
    /\ LET p == [svc[m] EXCEPT !.meeting.status = "failed",
                               !.meeting.error_message = Some(Slice(svc[m].error[1], ErrMax)),
                               !.pc = "done",
                               !.returned = Some(FALSE)]
       IN  IF ok
           THEN /\ meetings' = Save(m, p.meeting)
                /\ svc' = [svc EXCEPT ![m] = p]
           ELSE /\ svc' = [svc EXCEPT ![m] = [p EXCEPT !.store_raised = @ \cup {"handler"}]]
                /\ UNCHANGED meetings
    /\ UNCHANGED <<files, transcripts, summaries, action_items, req, reply, nextId, transcription_calls>>

\* ProcessingService(meeting_id).process_meeting() called again once the
\* previous run has returned: __init__ loads the row as it is now, and raises
\* Meeting.DoesNotExist when it is gone
Reprocess(m, limit) ==
    /\ m \in DOMAIN svc
    /\ m \in DOMAIN meetings
    /\ svc[m].pc = "done"
    /\ svc[m].run < limit
    /\ svc' = [svc EXCEPT ![m] = [NewService(meetings[m]) EXCEPT !.run = svc[m].run + 1]]
    /\ UNCHANGED <<meetings, files, transcripts, summaries, action_items, req, reply, nextId, transcription_calls>>

\* the word_count values a caller passes to a Transcript
PassedCounts == {0, 1, 7}

\* Transcript.objects.create(meeting, text, word_count) by a caller other
\* than the pipeline: Transcript.save sets word_count from the text
CreateTranscript(m, text, passed, limit) ==
    /\ m \in DOMAIN meetings
    /\ Len(transcripts) < limit
    /\ transcripts' = Append(transcripts,
           [meeting |-> m, text |-> text,
            word_count |-> TranscriptSaveWordCount(text, passed)])
    /\ UNCHANGED <<meetings, files, summaries, action_items, svc, req, reply, nextId, transcription_calls>>

\* a stored Transcript is given a word_count and saved again, text unchanged
ResaveTranscript(i, passed) ==
    /\ i \in DOMAIN transcripts
    /\ transcripts' = [transcripts EXCEPT
           ![i].word_count = TranscriptSaveWordCount(transcripts[i].text, passed)]
    /\ UNCHANGED <<meetings, files, summaries, action_items, svc, req, reply, nextId, transcription_calls>>

(***************************************************************************)
(* The views that write a Meeting row.                                     *)
(***************************************************************************)
\* toggle_star, its get_object_or_404
ToggleStarLoad(m) ==
    /\ m \in DOMAIN meetings
    /\ m \notin DOMAIN req
    /\ req' = With(req, m, meetings[m])
    /\ UNCHANGED <<meetings, files, transcripts, summaries, action_items, svc, reply, nextId, transcription_calls>>

\* toggle_star, its meeting.save() of the instance it loaded
ToggleStarSave(m) ==
    /\ m \in DOMAIN req
    /\ meetings' = Save(m, [req[m] EXCEPT !.is_starred = ~@])
    /\ req' = Without(req, m)
    /\ UNCHANGED <<files, transcripts, summaries, action_items, svc, reply, nextId, transcription_calls>>

\* a faulty variant of the delete: the row goes, its children stay
DeleteMeetingNoCascade(m) ==
    /\ IF m \in DOMAIN meetings
       THEN /\ meetings' = Without(meetings, m)
            /\ files' = Without(files, m)
            /\ reply' = Some([id |-> m, outcome |-> "deleted"])
       ELSE /\ reply' = Some([id |-> m, outcome |-> "not_found"])
            /\ UNCHANGED <<meetings, files>>
    /\ UNCHANGED <<transcripts, summaries, action_items, svc, req, nextId, transcription_calls>>

\* delete_meeting: the file, the row and (CASCADE) its children; for an id
\* with no row get_object_or_404 raises Http404, which the view's own
\* "except Exception" catches, and nothing is touched
DeleteMeeting(m) ==
    /\ IF m \in DOMAIN meetings
       THEN /\ meetings' = Without(meetings, m)
            /\ files' = Without(files, m)
            /\ transcripts' = SelectSeq(transcripts, LAMBDA r : r.meeting # m)
            /\ summaries' = SelectSeq(summaries, LAMBDA r : r.meeting # m)
            /\ action_items' = SelectSeq(action_items, LAMBDA r : r.meeting # m)
            /\ reply' = Some([id |-> m, outcome |-> "deleted"])
       ELSE /\ reply' = Some([id |-> m, outcome |-> "not_found"])
            /\ UNCHANGED <<meetings, files, transcripts, summaries, action_items>>
    /\ UNCHANGED <<svc, req, nextId, transcription_calls>>

(***************************************************************************)
(* Completing action items (the admin's bulk actions call these methods).  *)
(***************************************************************************)
\* the values timezone.now() takes in the model
Times == {1, 2}

\* a faulty variant: the completion time is left in place
mark_incomplete_keeps_time(i) ==
    /\ i \in 1..Len(action_items)
    /\ action_items' = [action_items EXCEPT ![i].is_completed = FALSE]
    /\ UNCHANGED <<meetings, files, transcripts, summaries, svc, req, reply, nextId, transcription_calls>>

\* ActionItem.mark_completed: is_completed = True, completed_at = now, save
mark_completed(i, now) ==
    /\ i \in 1..Len(action_items)
    /\ action_items' = [action_items EXCEPT ![i].is_completed = TRUE,
                                            ![i].completed_at = Some(now)]
    /\ UNCHANGED <<meetings, files, transcripts, summaries, svc, req, reply, nextId, transcription_calls>>

\* ActionItem.mark_incomplete: is_completed = False, completed_at = None, save
mark_incomplete(i) ==
    /\ i \in 1..Len(action_items)
    /\ action_items' = [action_items EXCEPT ![i].is_completed = FALSE,
                                            ![i].completed_at = None]
    /\ UNCHANGED <<meetings, files, transcripts, summaries, svc, req, reply, nextId, transcription_calls>>

(***************************************************************************)
(* The status poll.                                                        *)
(***************************************************************************)
\* a faulty variant of the table: a failed recording shown as half done
percentage_map_failed_50(status) ==
    CASE status = "pending" -> 10
      [] status = "processing" -> 50
      [] status = "completed" -> 100
      [] status = "failed" -> 50
      [] OTHER -> 0

\* percentage_map.get(meeting.status, 0)
percentage_map(status) ==
    CASE status = "pending" -> 10
      [] status = "processing" -> 50
      [] status = "completed" -> 100
      [] status = "failed" -> 0
      [] OTHER -> 0

\* the message reported for a failed recording that stored none
DefaultError == Str("Processing failed. Please try again.", 36)

\* get_meeting_status: the JSON it answers; a field that is None is absent.
\* For an id with no row get_object_or_404 raises Http404, which is no
\* Meeting.DoesNotExist and falls to "except Exception": a 500
get_meeting_status(m) ==
    IF m \notin DOMAIN meetings
    THEN [code |-> 500, status |-> "error", percentage |-> None, error_message |-> None]
    ELSE [code |-> 200,
          status |-> meetings[m].status,
          percentage |-> Some(percentage_map(meetings[m].status)),
          error_message |->
              IF meetings[m].status = "failed"
              THEN IF meetings[m].error_message = None \/ meetings[m].error_message[1].len = 0
                   THEN Some(DefaultError)
                   ELSE meetings[m].error_message
              ELSE None]

(***************************************************************************)
(* The detail view's list of action items.                                 *)
(***************************************************************************)
\* a deadline sorts before another, ascending; SQLite puts NULL first
DeadlineLess(a, b) ==
    IF a = None THEN b # None
    ELSE b # None /\ DateOrd(a[1]) < DateOrd(b[1])

\* order_by('-priority', 'deadline'): the priority column is a string and
\* sorts as one, descending; then the deadline, ascending
OrderByBefore(a, b) ==
    \/ StrLess(b.priority, a.priority)
    \/ a.priority = b.priority /\ DeadlineLess(a.deadline, b.deadline)

\* the ActionItems of a recording, as indices into action_items (which is in
\* creation order)
ItemsOf(m) == {i \in 1..Len(action_items) : action_items[i].meeting = m}

\* meeting_detail: the lists of action items the page can show, none when
\* the view redirects; rows equal under the sort keys come in any order
meeting_detail(m) ==
    IF m \notin DOMAIN meetings \/ meetings[m].status # "completed" THEN {}
    ELSE {shown \in [1..Cardinality(ItemsOf(m)) -> ItemsOf(m)] :
            /\ \A i, j \in DOMAIN shown : shown[i] = shown[j] => i = j
            /\ \A i, j \in DOMAIN shown :
                   i < j => ~OrderByBefore(action_items[shown[j]], action_items[shown[i]])}

Ids == 1..MaxMeetings

(***************************************************************************)
(* Spec: the pipeline of each recording running concurrently with the      *)
(* requests that write its row, on a few representative inputs.            *)
(***************************************************************************)
FewFiles == {[ext |-> ".mp3", size |-> 10 * MB]}

FewDurations == {None, Some(330)}

FewOutcomes ==
    {o \in TranscriptionOutcomes :
        \/ o.raises /\ o.error.len <= ErrMax
        \/ ~o.raises /\ o.text \in {<<>>, <<"a">>}}

FewResponses ==
    {Response("api_error", None), Response("json", Some(GoodDict(<<ItemHigh>>)))}

Next ==
    \/ \E f \in FewFiles : Upload(f, MaxMeetings)
    \/ \E m \in Ids, ok \in BOOLEAN : SetProcessing(m, ok)
    \/ \E m \in Ids, d \in FewDurations, ok \in BOOLEAN : ProbeDuration(m, d, ok)
    \/ \E m \in Ids, o \in FewOutcomes : Transcribe(m, o)
    \/ \E m \in Ids, ok \in BOOLEAN : SaveTranscript(m, ok)
    \/ \E m \in Ids : Summarize(m)
    \/ \E m \in Ids, r \in FewResponses : Attempt(m, r)
    \/ \E m \in Ids : CheckSummary(m)
    \/ \E m \in Ids, ok \in BOOLEAN : SaveSummary(m, ok)
    \/ \E m \in Ids : SaveActionItem(m)
    \/ \E m \in Ids, ok \in BOOLEAN : MarkCompleted(m, ok)
    \/ \E m \in Ids, ok \in BOOLEAN : HandleError(m, ok)
    \/ \E m \in Ids : ToggleStarLoad(m)
    \/ \E m \in Ids : ToggleStarSave(m)
    \/ \E m \in Ids : DeleteMeeting(m)

Spec == Init /\ [][Next]_vars

(***************************************************************************)
(* SpecPipeline: one recording is uploaded and its pipeline runs with no   *)
(* other request writing its row, on every input within the bounds.        *)
(***************************************************************************)
NextPipeline ==
    \/ \E f \in UploadFiles : Upload(f, 1)
    \/ \E ok \in BOOLEAN : SetProcessing(1, ok)
    \/ \E d \in Durations, ok \in BOOLEAN : ProbeDuration(1, d, ok)
    \/ \E o \in TranscriptionOutcomes : Transcribe(1, o)
    \/ \E ok \in BOOLEAN : SaveTranscript(1, ok)
    \/ Summarize(1)
    \/ \E r \in Responses : Attempt(1, r)
    \/ CheckSummary(1)
    \/ \E ok \in BOOLEAN : SaveSummary(1, ok)
    \/ SaveActionItem(1)
    \/ \E ok \in BOOLEAN : MarkCompleted(1, ok)
    \/ \E ok \in BOOLEAN : HandleError(1, ok)

SpecPipeline == Init /\ [][NextPipeline]_vars

(***************************************************************************)
(* SpecLifecycle: one recording over its life: uploaded, processed,        *)
(* processed again, deleted while or after it is processed.                *)
(***************************************************************************)
NextLifecycle ==
    \/ \E f \in FewFiles : Upload(f, 1)
    \/ \E ok \in BOOLEAN : SetProcessing(1, ok)
    \/ \E d \in FewDurations, ok \in BOOLEAN : ProbeDuration(1, d, ok)
    \/ \E o \in FewOutcomes : Transcribe(1, o)
    \/ \E ok \in BOOLEAN : SaveTranscript(1, ok)
    \/ Summarize(1)
    \/ \E r \in FewResponses : Attempt(1, r)
    \/ CheckSummary(1)
    \/ \E ok \in BOOLEAN : SaveSummary(1, ok)
    \/ SaveActionItem(1)
    \/ \E ok \in BOOLEAN : MarkCompleted(1, ok)
    \/ \E ok \in BOOLEAN : HandleError(1, ok)
    \/ Reprocess(1, MaxRuns)
    \/ DeleteMeeting(1)

SpecLifecycle == Init /\ [][NextLifecycle]_vars

(***************************************************************************)
(* SpecItems: one recording is processed and its action items are marked   *)
(* completed and incomplete, in any order, while and after the run.        *)
(***************************************************************************)
\* results with the lists of creatable items drawn from two of them
ItemResponses ==
    {Response("json", Some(GoodDict(items))) :
        items \in {l \in ItemLists : \A i \in 1..Len(l) : l[i] \in {ItemHigh, ItemLow}}}

NextItems ==
    \/ \E f \in FewFiles : Upload(f, 1)
    \/ \E ok \in BOOLEAN : SetProcessing(1, ok)
    \/ \E d \in FewDurations, ok \in BOOLEAN : ProbeDuration(1, d, ok)
    \/ \E o \in FewOutcomes : Transcribe(1, o)
    \/ \E ok \in BOOLEAN : SaveTranscript(1, ok)
    \/ Summarize(1)
    \/ \E r \in ItemResponses : Attempt(1, r)
    \/ CheckSummary(1)
    \/ \E ok \in BOOLEAN : SaveSummary(1, ok)
    \/ SaveActionItem(1)
    \/ \E ok \in BOOLEAN : MarkCompleted(1, ok)
    \/ \E ok \in BOOLEAN : HandleError(1, ok)
    \/ \E i \in 1..MaxItems, now \in Times : mark_completed(i, now)
    \/ \E i \in 1..MaxItems : mark_incomplete(i)

SpecItems == Init /\ [][NextItems]_vars

(***************************************************************************)
(* SpecUpload: files at the two size limits and just above them, of every  *)
(* extension of the model, are offered to the upload form; the recording   *)
(* of an accepted one is processed.                                        *)
(***************************************************************************)
BoundaryFiles ==
    {[ext |-> e, size |-> n] :
        e \in {".mp3", ".MP3", ".wav", ".m4a", ".ogg"},
        n \in {1 * MB, MAX_FILE_SIZE, MAX_FILE_SIZE + 1, max_size, max_size + 1}}

NextUpload ==
    \/ \E f \in BoundaryFiles : Upload(f, 1)
    \/ \E ok \in BOOLEAN : SetProcessing(1, ok)
    \/ \E d \in FewDurations, ok \in BOOLEAN : ProbeDuration(1, d, ok)
    \/ \E o \in FewOutcomes : Transcribe(1, o)
    \/ \E ok \in BOOLEAN : SaveTranscript(1, ok)
    \/ Summarize(1)
    \/ \E r \in FewResponses : Attempt(1, r)
    \/ CheckSummary(1)
    \/ \E ok \in BOOLEAN : SaveSummary(1, ok)
    \/ SaveActionItem(1)
    \/ \E ok \in BOOLEAN : MarkCompleted(1, ok)
    \/ \E ok \in BOOLEAN : HandleError(1, ok)

SpecUpload == Init /\ [][NextUpload]_vars

(***************************************************************************)
(* SpecTranscribe: transcribe_audio is called on paths that do not exist,  *)
(* that are directories, and on files of every size and extension of the   *)
(* model.                                                                  *)
(***************************************************************************)
\* what a path can hold
FsEntries ==
    {[ext |-> e, size |-> n, is_file |-> b] :
        e \in {".mp3", ".MP3", ".wav", ".m4a", ".webm", ".ogg", ".txt"},
        n \in {1 * MB, MAX_FILE_SIZE, MAX_FILE_SIZE + 1, max_size},
        b \in BOOLEAN}

InitTranscribe ==
    /\ meetings = <<>>
    /\ files \in UNION {[S -> FsEntries] : S \in SUBSET Ids}
    /\ transcripts = <<>>
    /\ summaries = <<>>
    /\ action_items = <<>>
    /\ svc = <<>>
    /\ req = <<>>
    /\ reply = None
    /\ transcription_calls = {}
    /\ nextId = 1

NextTranscribe ==
    \E path \in Ids, o \in FewOutcomes : transcribe_audio(path, o)

SpecTranscribe == InitTranscribe /\ [][NextTranscribe]_vars

(***************************************************************************)
(* SpecConcurrent: several recordings are uploaded and their pipelines run *)
(* in any interleaving, each on a text or a transcription failure of its   *)
(* own.                                                                    *)
(***************************************************************************)
\* the number of recordings processed at once
MaxConcurrent == 2

Concurrent == 1..MaxConcurrent

\* the results of the summarization the concurrent runs get
ConcurrentResponses ==
    {Response("json", Some(GoodDict(<<ItemHigh>>))),
     Response("json", Some(GoodDict(<<>>)))}

NextConcurrent ==
    \/ \E f \in FewFiles : Upload(f, MaxConcurrent)
    \/ \E m \in Concurrent : SetProcessing(m, TRUE)
    \/ \E m \in Concurrent : ProbeDuration(m, Some(330), TRUE)
    \/ \E m \in Concurrent, o \in FewOutcomes : Transcribe(m, o)
    \/ \E m \in Concurrent : SaveTranscript(m, TRUE)
    \/ \E m \in Concurrent : Summarize(m)
    \/ \E m \in Concurrent, r \in ConcurrentResponses : Attempt(m, r)
    \/ \E m \in Concurrent : CheckSummary(m)
    \/ \E m \in Concurrent : SaveSummary(m, TRUE)
    \/ \E m \in Concurrent : SaveActionItem(m)
    \/ \E m \in Concurrent : MarkCompleted(m, TRUE)
    \/ \E m \in Concurrent : HandleError(m, TRUE)

SpecConcurrent == Init /\ [][NextConcurrent]_vars

(***************************************************************************)
(* SpecLive: one recording is uploaded and the thread of its pipeline keeps *)
(* running: every external call it makes returns or raises, so the thread  *)
(* takes its next step whenever it has one.                                *)
(***************************************************************************)
PipelineStep(m) ==
    \/ \E ok \in BOOLEAN : SetProcessing(m, ok)
    \/ \E d \in Durations, ok \in BOOLEAN : ProbeDuration(m, d, ok)
    \/ \E o \in FewOutcomes : Transcribe(m, o)
    \/ \E ok \in BOOLEAN : SaveTranscript(m, ok)
    \/ Summarize(m)
    \/ \E r \in FewResponses \cup ItemResponses : Attempt(m, r)
    \/ CheckSummary(m)
    \/ \E ok \in BOOLEAN : SaveSummary(m, ok)
    \/ SaveActionItem(m)
    \/ \E ok \in BOOLEAN : MarkCompleted(m, ok)
    \/ \E ok \in BOOLEAN : HandleError(m, ok)

NextLive ==
    \/ \E f \in FewFiles : Upload(f, 1)
    \/ PipelineStep(1)

SpecLive == Init /\ [][NextLive]_vars /\ WF_vars(PipelineStep(1))

(***************************************************************************)
(* SpecTranscript: Transcripts of every text within the bounds, the empty  *)
(* one included, saved and saved again with any word_count passed in.      *)
(***************************************************************************)
NextTranscript ==
    \/ \E f \in FewFiles : Upload(f, 1)
    \/ \E text \in Texts, passed \in PassedCounts :
           CreateTranscript(1, text, passed, MaxTranscripts)
    \/ \E i \in 1..MaxTranscripts, passed \in PassedCounts : ResaveTranscript(i, passed)

SpecTranscript == Init /\ [][NextTranscript]_vars

(***************************************************************************)
(* SpecSummarize: generate_summary called on every text within the bounds, *)
(* the empty one included, up to its return or its exception.              *)
(***************************************************************************)
NextSummarize ==
    \/ \E t \in Texts : CallGenerateSummary(1, t)
    \/ Summarize(1)
    \/ \E r \in Responses : Attempt(1, r)

SpecSummarize == Init /\ [][NextSummarize]_vars

(***************************************************************************)
(* Claims.                                                                 *)
(***************************************************************************)
\* position of a status in the lifecycle pending -> processing -> {completed, failed}
StatusRank(status) ==
    CASE status = "pending" -> 0
      [] status = "processing" -> 1
      [] OTHER -> 2

\* C1: in every step and for every recording, the stored status never goes
\* back in the lifecycle: a completed or failed recording is not stored as
\* pending or processing afterwards, and a processing recording is not stored
\* as pending afterwards.
C1_StatusNeverReverts ==
    [][\A m \in DOMAIN meetings \cap DOMAIN meetings' :
          StatusRank(meetings'[m].status) >= StatusRank(meetings[m].status)]_vars


\* the number of whitespace-delimited tokens of a text: its token starts
Tokens(text) ==
    Cardinality({i \in 1..Len(text) :
        ~IsSpace(text[i]) /\ (i = 1 \/ IsSpace(text[i - 1]))})

\* the action items of the summarization result the run holds
ResultItems(p) == p.summary[1].action_items.v

\* every item of the list can be stored as an ActionItem
WellFormed(m, items) == \A i \in 1..Len(items) : NewActionItem(m, items[i]) # None

\* the pcs of a run between STEP 1 and STEP 7
InFlight ==
    {"probe", "transcribe", "save_transcript", "summarize", "attempt",
     "check_summary", "save_summary", "items", "complete"}

\* the run got a text from transcription and a result from summarization,
\* and no statement on the store raised
Nominal(p) ==
    /\ p.text # None
    /\ p.summary # None
    /\ p.store_raised = {}

\* C2: a first run on a pending recording in which transcription returns
\* the non-empty text T and summarization returns a result with n well-formed
\* action items has the stored status processing between STEP 1 and STEP 7,
\* and ends with status completed, exactly one Transcript whose word_count is
\* the number of whitespace-delimited tokens of T, exactly one Summary,
\* exactly n ActionItem rows, and process_meeting returning True.
C2_NominalRunCompletes ==
    \A m \in DOMAIN svc :
        LET p == svc[m]
        IN  /\ (p.pc \in InFlight) => meetings[m].status = "processing"
            /\ (p.pc = "done" /\ Nominal(p) /\ WellFormed(m, ResultItems(p))) =>
                   /\ p.returned = Some(TRUE)
                   /\ meetings[m].status = "completed"
                   /\ Len(RowsOf(transcripts, m)) = 1
                   /\ RowsOf(transcripts, m)[1].text = p.text[1]
                   /\ RowsOf(transcripts, m)[1].word_count = Tokens(p.text[1])
                   /\ Len(RowsOf(summaries, m)) = 1
                   /\ Len(RowsOf(action_items, m)) = Len(ResultItems(p))

\* a run on a two-token text with two well-formed items has completed
C2_Witness ==
    /\ 1 \in DOMAIN svc
    /\ svc[1].pc = "done"
    /\ Nominal(svc[1])
    /\ svc[1].text = Some(<<"a", " ", "a">>)
    /\ ResultItems(svc[1]) = <<ItemHigh, ItemLow>>
    /\ Len(RowsOf(action_items, 1)) = 2
    /\ meetings[1].status = "completed"


\* what transcribe_audio raises: a failed API call, a file it refuses
TranscriptionErrors == ApiErrors \cup {MsgNotFound, MsgNotAFile, MsgTooLarge, MsgBadFormat}

\* the run has ended on an exception of the transcription adapter
TranscriptionRaised(p) ==
    /\ p.pc = "done"
    /\ p.error # None
    /\ p.error[1] \in TranscriptionErrors

\* C3: when the transcription adapter raises during a run on a pending
\* recording (and the save of the exception handler does not itself raise),
\* the recording ends with status failed and a non-null error_message of at most 500 characters, and
\* has no Transcript, no Summary and no ActionItem row.
C3_TranscriptionFailure ==
    \A m \in DOMAIN svc :
        (TranscriptionRaised(svc[m]) /\ "handler" \notin svc[m].store_raised) =>
            /\ meetings[m].status = "failed"
            /\ meetings[m].error_message # None
            /\ meetings[m].error_message[1].id = svc[m].error[1].id
            /\ meetings[m].error_message[1].len <= 500
            /\ RowsOf(transcripts, m) = <<>>
            /\ RowsOf(summaries, m) = <<>>
            /\ RowsOf(action_items, m) = <<>>

\* the API call failed with a message of 501 characters, stored cut to 500
C3_Witness ==
    /\ 1 \in DOMAIN svc
    /\ TranscriptionRaised(svc[1])
    /\ "handler" \notin svc[1].store_raised
    /\ svc[1].error[1].len = 501
    /\ meetings[1].status = "failed"
    /\ meetings[1].error_message[1].len = 500


\* the run has ended and one of its steps raised: an exception reached the
\* handler, or a statement on the store raised
StepRaised(p) == p.pc = "done" /\ (p.error # None \/ p.store_raised # {})

\* the stored error_message is the first 500 characters of the exception
StoredFirst500(m, p) ==
    /\ meetings[m].error_message # None
    /\ meetings[m].error_message[1].id = p.error[1].id
    /\ meetings[m].error_message[1].len = Min(p.error[1].len, 500)

\* C4 as stated: when any step of the run raised (the duration persist
\* among them), process_meeting has stored status failed and the first 500
\* characters of the exception message, and has returned False.
C4_AsStated ==
    \A m \in DOMAIN svc :
        StepRaised(svc[m]) =>
            /\ svc[m].returned = Some(FALSE)
            /\ meetings[m].status = "failed"
            /\ svc[m].error # None
            /\ StoredFirst500(m, svc[m])

\* the steps whose exception reaches "except Exception"
CaughtSteps == {"status", "transcript", "summary", "completed"}

\* C4, amended: an exception of the duration persist is swallowed and the
\* run goes on; an exception of any other step reaches the handler, and a run
\* that reached the handler returns False and, when the handler's save
\* succeeds, has stored status failed and the first 500 characters of the
\* message; when that save raises too, the run still returns False and the
\* stored row keeps the status and error_message it had.  A run that did not
\* reach the handler returns True.
C4_HandlerStoresFailure ==
    \A m \in DOMAIN svc :
        LET p == svc[m]
        IN  /\ (p.store_raised \cap CaughtSteps # {}) => p.error # None
            /\ (p.pc = "done" /\ p.error # None) =>
                   /\ p.returned = Some(FALSE)
                   /\ IF "handler" \notin p.store_raised
                      THEN meetings[m].status = "failed" /\ StoredFirst500(m, p)
                      ELSE /\ meetings[m].status \in {"pending", "processing"}
                           /\ meetings[m].error_message = None
            /\ (p.pc = "done" /\ p.error = None) =>
                   /\ p.returned = Some(TRUE)
                   /\ p.store_raised \subseteq {"duration"}

\* the Transcript creation raised and the handler stored the failure
C4_Witness ==
    /\ 1 \in DOMAIN svc
    /\ svc[1].pc = "done"
    /\ svc[1].store_raised = {"transcript"}
    /\ svc[1].returned = Some(FALSE)
    /\ meetings[1].status = "failed"
    /\ meetings[1].error_message = Some(MsgDbLocked)


\* the text is neither empty nor made of whitespace only
NonBlank(text) == \E i \in 1..Len(text) : ~IsSpace(text[i])

\* the response of a call parsed to an object that holds the four required
\* keys, a string as executive_summary and lists as the three others
Accepted(resp) ==
    /\ resp.kind \in {"json", "wrapped"}
    /\ LET d == resp.body[1]
       IN  /\ \A key \in {"executive_summary", "key_decisions", "action_items",
                          "discussion_topics"} : Field(d, key) # JMissing
           /\ d.executive_summary.k = "str"
           /\ d.key_decisions.k = "list"
           /\ d.action_items.k = "list"
           /\ d.discussion_topics.k = "list"

AllListsEmpty(d) ==
    /\ d.key_decisions = JList(<<>>)
    /\ d.action_items = JList(<<>>)
    /\ d.discussion_topics = JList(<<>>)
    /\ d.participants = JList(<<>>)
    /\ d.insights = JList(<<>>)

\* C6: after each call, the response is accepted (generate_summary returns
\* its object) exactly when it parsed to an object with the four required
\* keys, a string executive_summary and list values for the three array
\* keys; any other response is a failed attempt, followed by another call
\* when fewer than 3 were made, and by the return of the fallback, whose list
\* fields are all empty, when it was the third.
C6_AcceptanceAndFallback ==
    \A m \in DOMAIN svc :
        LET p == svc[m]
        IN  (p.last # None) =>
              IF Accepted(p.last[1])
              THEN p.pc = "check_summary" /\ p.summary = p.last[1].body
              ELSE IF p.calls < 3
              THEN p.pc = "attempt" /\ p.attempt = p.calls /\ p.summary = None
              ELSE /\ p.pc = "check_summary"
                   /\ p.summary # None
                   /\ p.summary # p.last[1].body
                   /\ AllListsEmpty(p.summary[1])

\* an object without key_decisions was the third response not accepted
C6_Witness ==
    /\ 1 \in DOMAIN svc
    /\ svc[1].calls = 3
    /\ svc[1].last = Some(Response("json",
           Some([GoodDict(<<>>) EXCEPT !.key_decisions = JMissing])))
    /\ svc[1].pc = "check_summary"
    /\ AllListsEmpty(svc[1].summary[1])

\* generate_summary's input validation has run on the text
Validated(p) == p.text # None /\ p.pc # "summarize"

\* C7: on an empty or whitespace-only transcript generate_summary raises
\* its validation error at once: no call is made, no retry, no sleep, and
\* nothing is returned.
C7_BlankTranscriptRejected ==
    \A m \in DOMAIN svc :
        LET p == svc[m]
        IN  (Validated(p) /\ ~NonBlank(p.text[1])) =>
              /\ p.pc = "handler"
              /\ p.error = Some(MsgEmptyTranscript)
              /\ p.calls = 0
              /\ p.attempt = 0
              /\ p.sleeps = 0
              /\ p.summary = None

\* the empty text was refused
C7_Witness ==
    /\ 1 \in DOMAIN svc
    /\ svc[1].text = Some(<<>>)
    /\ svc[1].pc = "handler"
    /\ svc[1].calls = 0

\* a text of whitespace only was refused
C7_WitnessWhitespace ==
    /\ 1 \in DOMAIN svc
    /\ svc[1].text = Some(<<" ", " ">>)
    /\ svc[1].pc = "handler"
    /\ svc[1].calls = 0


\* C8: every ActionItem row the pipeline persisted has its priority in
\* {high, medium, low}.
C8_StoredPriorityIsAChoice ==
    \A i \in 1..Len(action_items) :
        action_items[i].priority \in {"high", "medium", "low"}

\* the place of a priority in the order high, medium, low
PriorityRank(priority) ==
    CASE priority = "high" -> 0
      [] priority = "medium" -> 1
      [] priority = "low" -> 2
      [] OTHER -> 3

\* row i is to be shown before row j: higher priority; or the same priority
\* and an earlier deadline; or the same priority and deadline, and created
\* later
ShownBefore(i, j) ==
    LET a == action_items[i]
        b == action_items[j]
    IN  \/ PriorityRank(a.priority) < PriorityRank(b.priority)
        \/ /\ a.priority = b.priority
           /\ a.deadline # None /\ b.deadline # None
           /\ DateOrd(a.deadline[1]) < DateOrd(b.deadline[1])
        \/ /\ a.priority = b.priority
           /\ a.deadline = b.deadline
           /\ i > j

\* C9: every list of action items the detail page shows is ordered by
\* priority, high before medium before low, then by deadline ascending, then
\* newest created first.
C9_ShownHighMediumLow ==
    \A m \in DOMAIN meetings :
        \A shown \in meeting_detail(m) :
            \A i, j \in DOMAIN shown : i < j => ~ShownBefore(shown[j], shown[i])

\* the items of the list that can be stored, in the order of the list
Creatable(m, items) == SelectSeq(items, LAMBDA item : NewActionItem(m, item) # None)

\* the rows those items make
CreatableRows(m, items) ==
    [i \in 1..Len(Creatable(m, items)) |-> NewActionItem(m, Creatable(m, items)[i])[1]]

\* C10: once the Summary is stored, the run persists every creatable item of
\* the result, those before and those after an item whose create raises, in
\* the order of the list; the failing item raises nothing to the run, which
\* (its final save not raising) ends with status completed.
C10_FailingItemIsSkipped ==
    \A m \in DOMAIN svc :
        LET p == svc[m]
        IN  /\ (p.pc = "items") =>
                   RowsOf(action_items, m) =
                       CreatableRows(m, SubSeq(ResultItems(p), 1, p.idx - 1))
            /\ (p.pc = "done" /\ p.summary # None
                  /\ p.store_raised \cap {"summary", "completed"} = {}) =>
                   /\ RowsOf(action_items, m) = CreatableRows(m, ResultItems(p))
                   /\ p.error = None
                   /\ p.returned = Some(TRUE)
                   /\ meetings[m].status = "completed"

\* the second of three items could not be stored; the first and the third
\* were, and the recording is completed
C10_Witness ==
    /\ 1 \in DOMAIN svc
    /\ svc[1].pc = "done"
    /\ svc[1].summary # None
    /\ ResultItems(svc[1]) = <<ItemHigh, ItemNullPriority, ItemLow>>
    /\ Len(RowsOf(action_items, 1)) = 2
    /\ RowsOf(action_items, 1)[2].priority = "low"
    /\ meetings[1].status = "completed"


\* the rows and the file the store holds
store == <<meetings, files, transcripts, summaries, action_items>>

C12_AtMostOneSummary ==
    \A m \in Ids : Len(RowsOf(summaries, m)) <= 1

\* a second run reached its Summary creation, which the one-to-one
\* constraint refused; the Summary of the first run is the only one
C12_Witness ==
    /\ 1 \in DOMAIN svc
    /\ svc[1].run = 2
    /\ svc[1].error = Some(MsgUnique)
    /\ Len(RowsOf(summaries, 1)) = 1


\* C13: in every reachable state, every recording that has a row with status
\* completed has exactly one Summary row and at least one Transcript row.
C13_CompletedHasSummaryAndTranscript ==
    \A m \in DOMAIN meetings :
        meetings[m].status = "completed" =>
            /\ Len(RowsOf(summaries, m)) = 1
            /\ Len(RowsOf(transcripts, m)) >= 1


\* C14: after every step, the word_count of every stored Transcript is the
\* number of whitespace-delimited tokens of its text (0 for the empty text),
\* whatever word_count the caller passed; and a step that saves a stored
\* Transcript again leaves every Transcript as it was.
C14_WordCountIsTokenCount ==
    [][/\ \A i \in DOMAIN transcripts' :
              transcripts'[i].word_count = Tokens(transcripts'[i].text)
       /\ Len(transcripts') = Len(transcripts) => transcripts' = transcripts]_vars

\* a Transcript of the empty text and one of two tokens are stored
C14_Witness ==
    /\ Len(transcripts) = 2
    /\ transcripts[1].text = <<>>
    /\ transcripts[1].word_count = 0
    /\ transcripts[2].text = <<"a", " ", "a">>
    /\ transcripts[2].word_count = 2


\* C15: for every recording that has a row, the status poll answers the
\* stored status, the percentage 10 for pending, 50 for processing, 100 for
\* completed and 0 for failed, and an error_message field exactly when the
\* status is failed.
C15_PollReportsStoredStatus ==
    \A m \in DOMAIN meetings :
        LET r == get_meeting_status(m)
            stored == meetings[m].status
        IN  /\ r.code = 200
            /\ r.status = stored
            /\ stored = "pending" => r.percentage = Some(10)
            /\ stored = "processing" => r.percentage = Some(50)
            /\ stored = "completed" => r.percentage = Some(100)
            /\ stored = "failed" => r.percentage = Some(0)
            /\ (r.error_message # None) <=> (stored = "failed")

\* a recording whose first run failed and whose second run completed: its
\* row still holds the error message, and the poll answers 100 without it
C15_Witness ==
    /\ 1 \in DOMAIN meetings
    /\ meetings[1].status = "completed"
    /\ meetings[1].error_message # None
    /\ get_meeting_status(1).percentage = Some(100)
    /\ get_meeting_status(1).error_message = None

\* a failed recording is polled: 0 and its error message
C15_WitnessFailed ==
    /\ 1 \in DOMAIN meetings
    /\ meetings[1].status = "failed"
    /\ get_meeting_status(1).percentage = Some(0)
    /\ get_meeting_status(1).error_message = meetings[1].error_message


\* C16: every ActionItem, from the moment the pipeline creates it and after
\* any sequence of mark_completed and mark_incomplete calls, has is_completed
\* true if and only if completed_at is non-null.
C16_CompletedIffCompletedAt ==
    \A i \in 1..Len(action_items) :
        action_items[i].is_completed <=> (action_items[i].completed_at # None)

\* two items of one recording: the first was marked completed at the later
\* time, the second is incomplete (never marked, or marked and cleared)
C16_Witness ==
    /\ Len(action_items) >= 2
    /\ action_items[1].is_completed
    /\ action_items[1].completed_at = Some(2)
    /\ ~action_items[2].is_completed
    /\ action_items[2].completed_at = None


\* C17: every uploaded file has an extension among mp3, wav, m4a and at most
\* 100 MB.  When it has more than 25 MB its recording never gets a
\* Transcript, Summary or ActionItem and its file is never sent to the
\* transcription API, and a run that reached the transcription step and
\* whose exception handler could write ends with the adapter's size error,
\* status failed and False returned.  When it has 25 MB or less no run of
\* its recording ends with the size error.
C17_Over25MBFailsValidation ==
    \A m \in DOMAIN svc :
        LET f == files[m]
            p == svc[m]
        IN  /\ lower(f.ext) \in {".mp3", ".wav", ".m4a"}
            /\ f.size <= 100 * 1024 * 1024
            /\ f.size > 25 * 1024 * 1024 =>
                   /\ RowsOf(transcripts, m) = <<>>
                   /\ RowsOf(summaries, m) = <<>>
                   /\ RowsOf(action_items, m) = <<>>
                   /\ m \notin transcription_calls
                   /\ p.pc \in {"start", "probe", "transcribe", "handler", "done"}
                   /\ (p.pc = "done" /\ p.store_raised \cap {"status", "handler"} = {}) =>
                          /\ p.error = Some(MsgTooLarge)
                          /\ p.returned = Some(FALSE)
                          /\ meetings[m].status = "failed"
                          /\ StoredFirst500(m, p)
            /\ f.size <= 25 * 1024 * 1024 => p.error # Some(MsgTooLarge)

\* a file of 25 MB and one byte passed the form and its run has failed
C17_Witness ==
    /\ 1 \in DOMAIN svc
    /\ files[1].size = 25 * 1024 * 1024 + 1
    /\ svc[1].pc = "done"
    /\ svc[1].error = Some(MsgTooLarge)
    /\ meetings[1].status = "failed"

\* a file of exactly 25 MB was transcribed and its recording completed
C17_WitnessAtLimit ==
    /\ 1 \in DOMAIN svc
    /\ files[1].size = 25 * 1024 * 1024
    /\ 1 \in transcription_calls
    /\ meetings[1].status = "completed"

\* a file of exactly 100 MB passed the form and its run has failed
C17_WitnessAtUploadLimit ==
    /\ 1 \in DOMAIN svc
    /\ files[1].size = 100 * 1024 * 1024
    /\ files[1].ext = ".MP3"
    /\ svc[1].error = Some(MsgTooLarge)
    /\ meetings[1].status = "failed"


\* the path is one of the four cases validate_audio_file refuses
Refused(path) ==
    \/ path \notin DOMAIN files
    \/ ~files[path].is_file
    \/ files[path].size > 25 * 1024 * 1024
    \/ lower(files[path].ext) \notin
           {".mp3", ".mp4", ".mpeg", ".mpga", ".m4a", ".wav", ".webm"}

\* C18: validate_audio_file answers an error with a non-empty reason for a
\* path that does not exist, is no regular file, holds more than 25 MB or
\* has an unsupported extension, and no error for any other path; a file
\* that fails validation is never sent to the transcription API, and
\* transcribe_audio answers ValueError for it and for no other path.
C18_ValidationBeforeApiCall ==
    \A path \in Ids :
        LET r == validate_audio_file(path)
        IN  /\ Refused(path) => (r # None /\ r[1].len > 0)
            /\ ~Refused(path) => r = None
            /\ Refused(path) => path \notin transcription_calls
            /\ \A o \in {"ValueError", "Exception", "text"} :
                   reply = Some([id |-> path, outcome |-> o]) =>
                       /\ (o = "ValueError") <=> Refused(path)
                       /\ (o # "ValueError") => path \in transcription_calls

\* transcribe_audio was called on a directory: ValueError, no API call
C18_Witness ==
    /\ 1 \in DOMAIN files
    /\ ~files[1].is_file
    /\ files[1].size = 1024 * 1024
    /\ files[1].ext = ".mp3"
    /\ reply = Some([id |-> 1, outcome |-> "ValueError"])
    /\ transcription_calls = {}

\* transcribe_audio was called on a path that does not exist
C18_WitnessMissing ==
    /\ 1 \notin DOMAIN files
    /\ reply = Some([id |-> 1, outcome |-> "ValueError"])
    /\ transcription_calls = {}

\* transcribe_audio was called on an .ogg file of 1 MB
C18_WitnessExtension ==
    /\ 1 \in DOMAIN files
    /\ files[1] = [ext |-> ".ogg", size |-> 1024 * 1024, is_file |-> TRUE]
    /\ reply = Some([id |-> 1, outcome |-> "ValueError"])
    /\ transcription_calls = {}

\* transcribe_audio was called on an .MP3 file of exactly 25 MB: sent
C18_WitnessValid ==
    /\ 1 \in DOMAIN files
    /\ files[1] = [ext |-> ".MP3", size |-> 25 * 1024 * 1024, is_file |-> TRUE]
    /\ reply = Some([id |-> 1, outcome |-> "text"])
    /\ transcription_calls = {1}


\* the run of recording m was started on a row with status completed, and
\* no delete request has been served
RerunOfCompleted(p, answered) == p.loaded = "completed" /\ answered = None

\* C19 as stated: a second run on a completed recording whose summarization
\* result holds action items, and whose Summary creation failed on the
\* one-to-one constraint, has left a second Transcript and a second copy of
\* an ActionItem.
C19_AsStated ==
    \A m \in DOMAIN svc :
        (/\ RerunOfCompleted(svc[m], reply)
         /\ svc[m].pc = "done"
         /\ svc[m].error = Some(MsgUnique)
         /\ ResultItems(svc[m]) # <<>>) =>
            /\ Len(RowsOf(transcripts, m)) = 2
            /\ \E i, j \in ItemsOf(m) : i < j /\ action_items[i] = action_items[j]

\* C19: a run started on a completed recording is not rejected; no step of
\* it creates a Summary or an ActionItem, it never reaches STEP 6, its
\* Summary creation (when the statement itself gets to the store) raises the
\* duplicate-key error, and when that error is raised the recording holds
\* one more Transcript than runs before it left.
C19_RerunFailsAtSummary ==
    [][\A m \in DOMAIN svc :
          (m \in DOMAIN svc' /\ RerunOfCompleted(svc[m], reply')) =>
              /\ RowsOf(action_items', m) = RowsOf(action_items, m)
              /\ RowsOf(summaries', m) = RowsOf(summaries, m)
              /\ Len(RowsOf(summaries, m)) = 1
              /\ svc'[m].pc \notin {"items", "complete"}
              /\ (/\ svc[m].pc = "save_summary"
                  /\ svc'[m].pc # "save_summary"
                  /\ "summary" \notin svc'[m].store_raised) =>
                     /\ svc'[m].error = Some(MsgUnique)
                     /\ Len(RowsOf(transcripts', m)) >= 2]_vars

\* the second run of a completed recording has ended: two Transcripts, the
\* one Summary and the one ActionItem of the first run, status failed
C19_Witness ==
    /\ 1 \in DOMAIN svc
    /\ RerunOfCompleted(svc[1], reply)
    /\ svc[1].run = 2
    /\ svc[1].pc = "done"
    /\ svc[1].error = Some(MsgUnique)
    /\ ResultItems(svc[1]) # <<>>
    /\ Len(RowsOf(transcripts, 1)) = 2
    /\ Len(RowsOf(summaries, 1)) = 1
    /\ Len(RowsOf(action_items, 1)) = 1
    /\ meetings[1].status = "failed"


\* C20: once a delete request for a recording has been answered "deleted",
\* in every later state (whatever the pipeline of the recording does next,
\* the status write of its exception handler included) the store holds no
\* Meeting row of that id and no Transcript, Summary or ActionItem of it.
C20_DeletionIsFinal ==
    \A m \in Ids :
        reply = Some([id |-> m, outcome |-> "deleted"]) =>
            /\ m \notin DOMAIN meetings
            /\ RowsOf(transcripts, m) = <<>>
            /\ RowsOf(summaries, m) = <<>>
            /\ RowsOf(action_items, m) = <<>>


\* C21: a step of the pipeline of a recording (a step that moves its
\* ProcessingService) leaves is_starred and file_size of the recording's row
\* as they were stored: a star toggle committed while the pipeline runs is
\* not undone by a pipeline write.
C21_PipelineKeepsStar ==
    [][\A m \in DOMAIN svc \cap DOMAIN svc' :
          (/\ svc'[m] # svc[m]
           /\ m \in DOMAIN meetings
           /\ m \in DOMAIN meetings') =>
              /\ meetings'[m].is_starred = meetings[m].is_starred
              /\ meetings'[m].file_size = meetings[m].file_size]_vars


\* C22: in every step of a run, for its recording: a Transcript is created
\* only under stored status processing and before any call of the
\* summarization adapter and any Summary; the summarization adapter is
\* entered and called only when the Transcript is stored; the Summary is
\* created only after the Transcript and before any ActionItem; an
\* ActionItem is created only after the Summary and under status
\* processing; and status becomes completed only from STEP 7, when the loop
\* over the action items has made its last attempt.
C22_WritesInOrder ==
    [][\A m \in DOMAIN svc \cap DOMAIN svc' :
          LET p == svc[m]
              q == svc'[m]
              stored == RowsOf(transcripts, m)
          IN  /\ RowsOf(transcripts', m) # stored =>
                     /\ meetings[m].status = "processing"
                     /\ stored = <<>>
                     /\ p.calls = 0
                     /\ p.summary = None
                     /\ RowsOf(summaries, m) = <<>>
              /\ ((p.pc = "summarize" /\ q # p) \/ q.calls > p.calls) =>
                     Len(stored) = 1
              /\ RowsOf(summaries', m) # RowsOf(summaries, m) =>
                     /\ Len(stored) = 1
                     /\ RowsOf(action_items, m) = <<>>
              /\ RowsOf(action_items', m) # RowsOf(action_items, m) =>
                     /\ Len(RowsOf(summaries, m)) = 1
                     /\ meetings[m].status = "processing"
              /\ (meetings'[m].status = "completed" /\ meetings[m].status # "completed") =>
                     /\ p.summary # None
                     /\ Len(RowsOf(summaries, m)) = 1
                     /\ ResultItems(p) # <<>> => p.idx = Len(ResultItems(p))
                     /\ RowsOf(action_items', m) = RowsOf(action_items, m)]_vars

\* a run went through all five writes: the file was sent to transcription,
\* two ActionItems were created, and the status is completed
C22_Witness ==
    /\ 1 \in DOMAIN svc
    /\ svc[1].pc = "done"
    /\ transcription_calls = {1}
    /\ Len(RowsOf(transcripts, 1)) = 1
    /\ Len(RowsOf(summaries, 1)) = 1
    /\ Len(RowsOf(action_items, 1)) = 2
    /\ ResultItems(svc[1]) = <<ItemLow, ItemHigh>>
    /\ meetings[1].status = "completed"


\* what the run p of recording m leaves when it runs alone and no statement
\* on the store raises: the status, the Transcripts, the number of Summaries
\* and the ActionItems follow from what transcription and summarization gave
\* to this run
AloneStatus(p) == IF p.error = None THEN "completed" ELSE "failed"

AloneTranscripts(m, p) ==
    IF p.text = None THEN <<>>
    ELSE <<[meeting |-> m, text |-> p.text[1], word_count |-> Tokens(p.text[1])]>>

AloneItems(m, p) == IF p.summary = None THEN <<>> ELSE CreatableRows(m, ResultItems(p))

ThreeAttemptsFailed(p) ==
    /\ p.pc = "check_summary"
    /\ p.calls = 3
    /\ p.sleeps = 2
    /\ AttemptResult(p.last[1]) = None

\* C24: when the third summarization attempt of a run has failed the run
\* goes on with the fixed result; a run that went on with it (no statement
\* on the store raising) ends with status completed, a null error_message
\* and True returned, with one Transcript, one Summary holding the notice
\* text and five empty lists, and no ActionItem.
C24_FallbackCompletes ==
    \A m \in DOMAIN svc :
        LET p == svc[m]
        IN  /\ ThreeAttemptsFailed(p) =>
                   /\ p.summary = Some(fallback_summary)
                   /\ p.error = None
                   /\ Len(RowsOf(transcripts, m)) = 1
            /\ (p.pc = "done" /\ p.summary = Some(fallback_summary) /\ p.store_raised = {}) =>
                   /\ p.returned = Some(TRUE)
                   /\ meetings[m].status = "completed"
                   /\ meetings[m].error_message = None
                   /\ Len(RowsOf(transcripts, m)) = 1
                   /\ RowsOf(summaries, m) =
                          <<[meeting |-> m,
                             executive_summary |-> JStr("Summary generation encountered errors."),
                             key_decisions |-> JList(<<>>),
                             discussion_topics |-> JList(<<>>),
                             participants |-> JList(<<>>),
                             insights |-> JList(<<>>)]>>
                   /\ RowsOf(action_items, m) = <<>>

\* a run whose three attempts failed has completed
C24_Witness ==
    /\ 1 \in DOMAIN svc
    /\ svc[1].pc = "done"
    /\ svc[1].summary = Some(fallback_summary)
    /\ svc[1].store_raised = {}
    /\ svc[1].text = Some(<<"a", " ", "a">>)
    /\ meetings[1].status = "completed"
    /\ Len(RowsOf(summaries, 1)) = 1

\* the third attempt has just failed
C24_WitnessThirdFailure ==
    /\ 1 \in DOMAIN svc
    /\ ThreeAttemptsFailed(svc[1])
    /\ svc[1].last = Some(Response("api_error", None))


\* C25 as stated: a run that has returned True has left the stored status
\* completed, and a run that has returned False has left it failed.
C25_AsStated ==
    \A m \in DOMAIN svc :
        svc[m].pc = "done" =>
            /\ svc[m].returned = Some(TRUE) => meetings[m].status = "completed"
            /\ svc[m].returned = Some(FALSE) => meetings[m].status = "failed"

\* C25: a run that has returned has returned True or False; True only with
\* the stored status completed; False with the stored status failed when
\* the save of the exception handler went through, and with the status the
\* row had before (pending or processing) when that save raised.
C25_ReturnAgreesWithStatus ==
    \A m \in DOMAIN svc :
        LET p == svc[m]
        IN  p.pc = "done" =>
                /\ p.returned \in {Some(TRUE), Some(FALSE)}
                /\ p.returned = Some(TRUE) =>
                       meetings[m].status = "completed" /\ p.error = None
                /\ (p.returned = Some(FALSE) /\ "handler" \notin p.store_raised) =>
                       meetings[m].status = "failed"
                /\ (p.returned = Some(FALSE) /\ "handler" \in p.store_raised) =>
                       /\ meetings[m].status \in {"pending", "processing"}
                       /\ meetings[m].status = "pending" <=> "status" \in p.store_raised

\* a run failed in summary creation and could not store failed: it has
\* returned False and the stored status is processing
C25_Witness ==
    /\ 1 \in DOMAIN svc
    /\ svc[1].pc = "done"
    /\ svc[1].returned = Some(FALSE)
    /\ svc[1].store_raised = {"summary", "handler"}
    /\ meetings[1].status = "processing"
    /\ Len(RowsOf(transcripts, 1)) = 1

\* a run has returned True
C25_WitnessTrue ==
    /\ 1 \in DOMAIN svc
    /\ svc[1].pc = "done"
    /\ svc[1].returned = Some(TRUE)
    /\ svc[1].store_raised = {"duration"}
    /\ meetings[1].status = "completed"


\* the pipeline of recording 1 was started
Started == 1 \in DOMAIN svc

\* the retry loop of the run p: at most 3 calls and 2 sleeps; while another
\* call is due every call so far was followed by a sleep, and once the loop
\* has ended one call (the accepted or the last one) was not
RetryLoopBounded(p) ==
    /\ p.calls <= 3
    /\ p.sleeps <= 2
    /\ (p.pc = "attempt") => (p.calls < 3 /\ p.sleeps = p.calls)
    /\ (p.pc = "check_summary") => p.sleeps = p.calls - 1

\* C26 as stated: a started run leads to a stored status of completed or
\* failed.
C26_AsStated == Started ~> (Started /\ meetings[1].status \in {"completed", "failed"})

\* C26: a started run returns, and then the stored status is completed or
\* failed unless the save of the exception handler raised; and in every
\* state the retry loop has made at most 3 calls, with a sleep after each
\* failed call but the third and none after an accepted one.
C26_RunTerminates ==
    /\ [](\A m \in DOMAIN svc : RetryLoopBounded(svc[m]))
    /\ Started ~> (/\ Started
                   /\ svc[1].pc = "done"
                   /\ svc[1].returned # None
                   /\ \/ meetings[1].status \in {"completed", "failed"}
                      \/ "handler" \in svc[1].store_raised)

\* the loop has ended after three failed calls and two sleeps
C26_Witness ==
    /\ Started
    /\ svc[1].pc = "check_summary"
    /\ svc[1].calls = 3
    /\ svc[1].sleeps = 2
    /\ svc[1].last = Some(Response("api_error", None))
    /\ meetings[1].status = "processing"

\* a run has returned and left its recording in processing
C26_WitnessStuck ==
    /\ Started
    /\ svc[1].pc = "done"
    /\ svc[1].store_raised = {"handler"}
    /\ svc[1].error = Some(MsgEmptyTranscription)
    /\ meetings[1].status = "processing"


\* C27: a run to which the transcription adapter returned the empty text
\* stores no Transcript, never enters the summarization adapter, raises
\* "Transcription returned empty text", and (the save of its handler going
\* through) ends with status failed, that text as error_message, and False
\* returned.
C27_EmptyTranscriptionFails ==
    \A m \in DOMAIN svc :
        LET p == svc[m]
        IN  p.transcript_text = Some(<<>>) =>
                /\ p.pc \in {"handler", "done"}
                /\ p.error = Some(Str("Transcription returned empty text", 33))
                /\ RowsOf(transcripts, m) = <<>>
                /\ RowsOf(summaries, m) = <<>>
                /\ RowsOf(action_items, m) = <<>>
                /\ p.calls = 0
                /\ p.summary = None
                /\ (p.pc = "done" /\ "handler" \notin p.store_raised) =>
                       /\ meetings[m].status = "failed"
                       /\ meetings[m].error_message =
                              Some(Str("Transcription returned empty text", 33))
                       /\ p.returned = Some(FALSE)

\* the file was sent, the empty text came back, the run has ended failed
C27_Witness ==
    /\ 1 \in DOMAIN svc
    /\ svc[1].transcript_text = Some(<<>>)
    /\ 1 \in transcription_calls
    /\ svc[1].pc = "done"
    /\ meetings[1].status = "failed"
    /\ meetings[1].duration = Some(330)


\* the text is not empty and every character of it is whitespace
WhitespaceOnly(text) == text # <<>> /\ \A i \in 1..Len(text) : text[i] = " "

\* C28: a run to which the transcription adapter returned a non-empty text
\* of whitespace only, and whose Transcript creation went through, holds
\* exactly one Transcript, with that text and word_count 0, and no Summary
\* and no ActionItem; the summarization adapter refuses the text before any
\* call, the run goes to its exception handler, and (the handler's save
\* going through) ends with status failed and False returned.
C28_WhitespaceTranscriptionFails ==
    \A m \in DOMAIN svc :
        LET p == svc[m]
        IN  (/\ p.transcript_text # None
             /\ WhitespaceOnly(p.transcript_text[1])
             /\ "transcript" \notin p.store_raised) =>
                /\ p.pc \in {"save_transcript", "summarize", "handler", "done"}
                /\ p.calls = 0
                /\ p.summary = None
                /\ RowsOf(summaries, m) = <<>>
                /\ RowsOf(action_items, m) = <<>>
                /\ p.pc # "save_transcript" =>
                       RowsOf(transcripts, m) =
                           <<[meeting |-> m, text |-> p.transcript_text[1], word_count |-> 0]>>
                /\ p.pc \in {"handler", "done"} =>
                       p.error = Some(Str("Transcript text cannot be empty", 31))
                /\ (p.pc = "done" /\ "handler" \notin p.store_raised) =>
                       /\ meetings[m].status = "failed"
                       /\ meetings[m].error_message # None
                       /\ p.returned = Some(FALSE)

\* two spaces came back: one Transcript of no word, the run failed
C28_Witness ==
    /\ 1 \in DOMAIN svc
    /\ svc[1].transcript_text = Some(<<" ", " ">>)
    /\ svc[1].pc = "done"
    /\ Len(RowsOf(transcripts, 1)) = 1
    /\ RowsOf(transcripts, 1)[1].word_count = 0
    /\ meetings[1].status = "failed"


\* the item of the result has the keys task, assignee and priority
HasRequiredFields(item) ==
    /\ item.k = "dict"
    /\ item.v[1].task.k # "missing"
    /\ item.v[1].assignee.k # "missing"
    /\ item.v[1].priority.k # "missing"

\* C29: a run that stored its Summary and has returned True holds as
\* ActionItems the rows of those items of the result that have all of task,
\* assignee and priority (and that the store accepts), and no row of an
\* item that lacks one of the three.
C29_ItemsLackingFieldsDropped ==
    \A m \in DOMAIN svc :
        LET p == svc[m]
        IN  (p.pc = "done" /\ p.summary # None /\ p.returned = Some(TRUE)) =>
                RowsOf(action_items, m) =
                    CreatableRows(m, SelectSeq(ResultItems(p), HasRequiredFields))


\* C30: the step in which the duration probe answers takes the run on to
\* transcription; when the probe gave no value the recording's row is left
\* as it was, and when it gave a duration n (and the save of it did not
\* raise) the row holds duration n from that step on, before transcription
\* is called.
C30_ProbedDurationStored ==
    [][\A m \in DOMAIN svc \cap DOMAIN svc' :
          svc'[m].probed # svc[m].probed =>
              /\ svc[m].pc = "probe"
              /\ svc'[m].pc = "transcribe"
              /\ svc'[m].error = None
              /\ m \notin transcription_calls'
              /\ svc'[m].probed = Some(None) => meetings' = meetings
              /\ (svc'[m].probed # Some(None) /\ "duration" \notin svc'[m].store_raised) =>
                     Some(meetings'[m].duration) = svc'[m].probed]_vars

====
